---- MODULE Spec2Model ----
(***************************************************************************)
(* Model of the CruiseControlOperation reconciler                          *)
(* (controllers/cruisecontroloperation_controller.go).                     *)
(*                                                                         *)
(* The store holds the operation records; one reconciliation pass is in    *)
(* flight at a time (controller-runtime runs one worker unless told        *)
(* otherwise) and runs in three steps: ReconcileStart (list .. selection), *)
(* Execute (the dispatch verb) and Persist (merge + status write under     *)
(* conflict retry).  The user, the Kafka cluster, the clock and the        *)
(* Cruise Control engine act between the steps.                            *)
(***************************************************************************)
EXTENDS Integers, Sequences, FiniteSets, TLC

\* ------------------------------------------------------------------ bounds
NumOps == 1
NumListed == 3
MaxTicks == 2
MaxJobs == 3
MaxConflictRetries == 2
MaxRetry == 2


\* --------------------------------------------------------------- constants
defaultFailedTasksHistoryMaxLength == 50
DefaultRetryBackOffDurationSec == 30

OperationAddBroker == "add_broker"
OperationRemoveBroker == "remove_broker"
OperationRebalance == "rebalance"
OperationStopExecution == "stop_proposal_execution"
OperationUnsupported == "unsupported"

CruiseControlTaskActive == "Active"
CruiseControlTaskInExecution == "InExecution"
CruiseControlTaskCompleted == "Completed"
CruiseControlTaskCompletedWithError == "CompletedWithError"

ErrorPolicyIgnore == "ignore"
ErrorPolicyRetry == "retry"

ccOperationForStopExecution == "ccOperationStopExecution"
ccOperationFirstExecution == "ccOperationFirstExecution"
ccOperationRetryExecution == "ccOperationRetryExecution"
ccOperationInProgress == "ccOperationInProgress"

missingCCResErr == "missing Cruise Control user task result"

NoTime == -1
NoId == 0
NoOp == 0

CreatableKinds == {OperationAddBroker, OperationRebalance}
ErrorPolicies == {ErrorPolicyIgnore, ErrorPolicyRetry}
TerminalStates == {CruiseControlTaskCompleted, CruiseControlTaskCompletedWithError}

\* ------------------------------------------------------------------- state
VARIABLES
  rec,        \* the store: record id -> CruiseControlOperation
  cluster,    \* the referenced KafkaCluster exists
  now,        \* wall clock
  jobs,       \* Cruise Control user tasks: job id -> [state, owner]
  pc,         \* position of the pass in flight: idle, execute, persist, done
  items,      \* the pass's in-memory list (ccOperationListClusterWide.Items)
  qmap,       \* the pass's ccOperationQueueMap
  sel,        \* the pass's ccOperationExecution (NoOp = nil)
  busy,       \* status.InExecution() as read by the pass
  passNow,    \* time.Now() of the pass
  res,        \* the dispatch result held by the pass
  stale,      \* the store changed the selected record after the pass listed it
  trig,       \* the record the pass was triggered for (request.Name)
  result      \* what the pass returned: [ret, exit]

\* The records of the store and the job ids of the engine.
Ops == DOMAIN rec
JobIds == DOMAIN jobs

vars == <<rec, cluster, now, jobs, pc, items, qmap, sel, busy, passNow, res, stale, trig, result>>

\* ----------------------------------------------------------------- records
EmptyTask(kind) ==
  [op |-> kind, id |-> NoId, state |-> "", started |-> NoTime, finished |-> NoTime, err |-> ""]

Absent ==
  [exists |-> FALSE, deleting |-> FALSE, finalizer |-> FALSE, created |-> 0, ref |-> "",
   specPolicy |-> ErrorPolicyIgnore, statusPolicy |-> "",
   task |-> EmptyTask(""), failedTasks |-> <<>>, retryCount |-> 0]

NoRes == [nil |-> TRUE, taskID |-> NoId, state |-> "", startedAt |-> NoTime, err |-> ""]
NoJob == [state |-> "none", owner |-> NoOp]
EmptyQueueMap == [b \in {ccOperationForStopExecution, ccOperationFirstExecution,
                         ccOperationRetryExecution, ccOperationInProgress} |-> <<>>]
NoResult == [ret |-> "none", exit |-> "none"]
KafkaClusterName == "kafka"
ClusterRefs == {KafkaClusterName}

\* A record the store has deleted for good.
Deleted == [Absent EXCEPT !.deleting = TRUE]

Status(o) == [task |-> o.task, failedTasks |-> o.failedTasks,
              retryCount |-> o.retryCount, statusPolicy |-> o.statusPolicy]

WithStatus(o, m) == [o EXCEPT !.task = m.task, !.failedTasks = m.failedTasks,
                              !.retryCount = m.retryCount, !.statusPolicy = m.statusPolicy]

\* ------------------------------------------- api/v1alpha1 record predicates
IsCurrentTaskOperationValid(o) ==
  o.task.op \in {OperationAddBroker, OperationRemoveBroker, OperationRebalance, OperationStopExecution}

IsDone(o) ==
  \/ o.task.state = CruiseControlTaskCompleted
  \/ o.task.state = CruiseControlTaskCompletedWithError /\ o.statusPolicy = ErrorPolicyIgnore

IsCurrentTaskRunning(o) == o.task.started # NoTime /\ o.task.finished = NoTime

IsWaitingForFirstExecution(o) ==
  o.task.op # "" /\ o.task.id = NoId /\ o.task.state = "" /\ o.task.started = NoTime

IsWaitingForRetryExecution(o) ==
  o.task.state = CruiseControlTaskCompletedWithError /\ o.statusPolicy = ErrorPolicyRetry

IsInProgress(o) == o.task.state \in {CruiseControlTaskActive, CruiseControlTaskInExecution}

IsReadyForRetryExecution(o, t) ==
  o.task.finished # NoTime /\ o.task.finished + DefaultRetryBackOffDurationSec < t

SetDefaults(task) == EmptyTask(task.op)

\* ------------------------------------------------------ controller helpers
executionPriorityMap(op) ==
  CASE op = OperationAddBroker -> 2
    [] op = OperationRemoveBroker -> 1
    [] op = OperationRebalance -> 0
    [] OTHER -> 0

\* isFinalizerNeeded without the test of the DeletionTimestamp.
isFinalizerNeeded_guardOnly(o) == o.finalizer

isFinalizerNeeded(o) == o.finalizer /\ o.deleting

isWaitingForFinalization(o) == IsCurrentTaskRunning(o) /\ o.deleting /\ o.finalizer

\* ------------------------------------------------------------ updateResult
\* shouldArchive that does not look at the state of the task being replaced.
shouldArchive_anyState(isAfterExecution, task) ==
  isAfterExecution /\ task.finished # NoTime

\* shouldArchive with the test of Finished inverted.
shouldArchive_unfinished(isAfterExecution, task) ==
  isAfterExecution /\ task.finished = NoTime /\ task.state = CruiseControlTaskCompletedWithError

\* shouldArchive without the test for a merge after an execution.
shouldArchive_anyMerge(isAfterExecution, task) ==
  task.finished # NoTime /\ task.state = CruiseControlTaskCompletedWithError

\* The condition under which the merge archives CurrentTask (source line 396).
shouldArchive(isAfterExecution, task) ==
  isAfterExecution /\ task.finished # NoTime /\ task.state = CruiseControlTaskCompletedWithError

\* resultOrMissing that takes a missing result as no news: the task keeps its
\* State.
resultOrMissing_keepState(r0, o) ==
  IF r0.nil
    THEN [nil |-> FALSE, taskID |-> o.task.id, state |-> o.task.state,
          startedAt |-> NoTime, err |-> missingCCResErr]
    ELSE r0

\* A missing result is handled as CompletedWithError (source lines 379-386).
resultOrMissing(r0, o) ==
  IF r0.nil
    THEN [nil |-> FALSE, taskID |-> o.task.id, state |-> CruiseControlTaskCompletedWithError,
          startedAt |-> NoTime, err |-> missingCCResErr]
    ELSE r0

\* The error policy is copied and a terminal result stamps Finished once
\* (source lines 388-393).
markFinished(r, o, t) ==
  IF r.state \in TerminalStates /\ o.task.finished = NoTime
    THEN [o EXCEPT !.statusPolicy = o.specPolicy, !.task.finished = t]
    ELSE [o EXCEPT !.statusPolicy = o.specPolicy]

\* archiveTask that drops the newest entry of a full history instead of the oldest.
archiveTask_evictNewest(o) ==
  [o EXCEPT !.failedTasks = Append(IF Len(o.failedTasks) >= defaultFailedTasksHistoryMaxLength
                                     THEN SubSeq(o.failedTasks, 1, Len(o.failedTasks) - 1)
                                     ELSE o.failedTasks,
                                   o.task),
            !.retryCount = o.retryCount + 1,
            !.task = SetDefaults(o.task)]

\* The archive branch (source lines 397-403).
archiveTask(o) ==
  [o EXCEPT !.failedTasks = Append(IF Len(o.failedTasks) >= defaultFailedTasksHistoryMaxLength
                                     THEN Tail(o.failedTasks)
                                     ELSE o.failedTasks,
                                   o.task),
            !.retryCount = o.retryCount + 1,
            !.task = SetDefaults(o.task)]

archiveIfFailed(o, isAfterExecution) ==
  IF shouldArchive(isAfterExecution, o.task) THEN archiveTask(o) ELSE o

\* time.Parse fails on the start time of the result (source lines 407-411).
parseFails(r, o, isAfterExecution) ==
  isAfterExecution /\ o.task.started = NoTime /\ r.startedAt = NoTime

\* What the merge records after an execution (source lines 406-421).
recordExecution(r, o, isAfterExecution) ==
  IF isAfterExecution
    THEN [o EXCEPT !.task.started = IF o.task.started = NoTime THEN r.startedAt ELSE @,
                   !.task.id = r.taskID,
                   !.task.err = IF r.err # "" THEN r.err ELSE @]
    ELSE o

\* Source lines 406-425, on the record as the archive branch left it.
finishMerge(r, o, isAfterExecution) ==
  IF parseFails(r, o, isAfterExecution)
    THEN [err |-> TRUE, op |-> o]
    ELSE [err |-> FALSE,
          op |-> [recordExecution(r, o, isAfterExecution) EXCEPT !.task.state = r.state]]

\* The merge of a Cruise Control result into the record's CurrentTask.
\* Returns the record as mutated in memory and whether the merge failed.
updateResult(r0, o, isAfterExecution, t) ==
  finishMerge(resultOrMissing(r0, o),
              archiveIfFailed(markFinished(resultOrMissing(r0, o), o, t), isAfterExecution),
              isAfterExecution)

\* ---------------------------------------------------------- sortOperations
\* less with the creation times compared the other way round.
less_newestFirst(a, b) ==
  \/ executionPriorityMap(a.task.op) > executionPriorityMap(b.task.op)
  \/ /\ executionPriorityMap(a.task.op) = executionPriorityMap(b.task.op)
     /\ a.created > b.created

\* The less function handed to sort.SliceStable.
less(a, b) ==
  \/ executionPriorityMap(a.task.op) > executionPriorityMap(b.task.op)
  \/ /\ executionPriorityMap(a.task.op) = executionPriorityMap(b.task.op)
     /\ a.created < b.created

\* Where x goes into the sorted front: before the first element it is less than.
insertPos(front, x, its) ==
  IF \E i \in 1..Len(front) : less(its[x], its[front[i]])
    THEN CHOOSE i \in 1..Len(front) :
           /\ less(its[x], its[front[i]])
           /\ \A j \in 1..(i - 1) : ~less(its[x], its[front[j]])
    ELSE Len(front) + 1

insertAt(front, x, pos) ==
  SubSeq(front, 1, pos - 1) \o <<x>> \o SubSeq(front, pos, Len(front))

\* sort.SliceStable: the stable sort of q (record ids) by less, as insertion sort.
RECURSIVE SliceStable(_, _)
SliceStable(q, its) ==
  IF q = <<>> THEN <<>>
  ELSE insertAt(SliceStable(SubSeq(q, 1, Len(q) - 1), its), q[Len(q)],
                insertPos(SliceStable(SubSeq(q, 1, Len(q) - 1), its), q[Len(q)], its))

bucketOf(o) ==
  CASE isWaitingForFinalization(o) -> ccOperationForStopExecution
    [] ~isWaitingForFinalization(o) /\ IsWaitingForFirstExecution(o) -> ccOperationFirstExecution
    [] ~isWaitingForFinalization(o) /\ ~IsWaitingForFirstExecution(o)
         /\ IsWaitingForRetryExecution(o) -> ccOperationRetryExecution
    [] ~isWaitingForFinalization(o) /\ ~IsWaitingForFirstExecution(o)
         /\ ~IsWaitingForRetryExecution(o) /\ IsInProgress(o) -> ccOperationInProgress
    [] OTHER -> "none"

\* The ids of list (a sequence of record ids) that fall into bucket b, in list order.
RECURSIVE appendTo(_, _, _)
appendTo(b, list, its) ==
  IF list = <<>> THEN <<>>
  ELSE IF bucketOf(its[list[Len(list)]]) = b
    THEN Append(appendTo(b, SubSeq(list, 1, Len(list) - 1), its), list[Len(list)])
    ELSE appendTo(b, SubSeq(list, 1, Len(list) - 1), its)

sortOperations(list, its) ==
  [b \in DOMAIN EmptyQueueMap |-> SliceStable(appendTo(b, list, its), its)]

\* --------------------------------------------- selectOperationForExecution
\* markStopExecution that leaves the recorded kind alone.
markStopExecution_keepKind(its, x) == its

\* First prio: the record picked for stopping has its task kind overwritten
\* (source line 310).
markStopExecution(its, x) == [its EXCEPT ![x].task.op = OperationStopExecution]

\* addBrokerFirst that tests for the wrong operation kind.
addBrokerFirst_removeBroker(q, its) ==
  /\ Len(q[ccOperationFirstExecution]) > 0
  /\ its[q[ccOperationFirstExecution][1]].task.op = OperationRemoveBroker

\* Second prio: the head of the first-execution queue is an add_broker
\* (source line 312).
addBrokerFirst(q, its) ==
  /\ Len(q[ccOperationFirstExecution]) > 0
  /\ its[q[ccOperationFirstExecution][1]].task.op = OperationAddBroker

\* retryPick that falls through to the first-execution queue inside the window.
retryPick_fallThrough(q, its, t) ==
  IF IsReadyForRetryExecution(its[q[ccOperationRetryExecution][1]], t)
    THEN q[ccOperationRetryExecution][1]
    ELSE IF Len(q[ccOperationFirstExecution]) > 0 THEN q[ccOperationFirstExecution][1] ELSE NoOp

\* Third prio: the head of the retry queue, once its backoff elapsed; nothing
\* otherwise (source lines 315-319).
retryPick(q, its, t) ==
  IF IsReadyForRetryExecution(its[q[ccOperationRetryExecution][1]], t)
    THEN q[ccOperationRetryExecution][1]
    ELSE NoOp

\* Returns the selected record id (NoOp = nil) and the in-memory list, in which
\* a record selected for stopping has its task kind overwritten.
selectOperationForExecution(q, its, t) ==
  IF Len(q[ccOperationForStopExecution]) > 0
    THEN [sel |-> q[ccOperationForStopExecution][1],
          items |-> markStopExecution(its, q[ccOperationForStopExecution][1])]
  ELSE IF addBrokerFirst(q, its)
    THEN [sel |-> q[ccOperationFirstExecution][1], items |-> its]
  ELSE IF Len(q[ccOperationRetryExecution]) > 0
    THEN [sel |-> retryPick(q, its, t), items |-> its]
  ELSE IF Len(q[ccOperationFirstExecution]) > 0
    THEN [sel |-> q[ccOperationFirstExecution][1], items |-> its]
  ELSE [sel |-> NoOp, items |-> its]

\* ------------------------------------------------------------ store, engine
\* controllerutil.RemoveFinalizer followed by r.Update: once the guard is gone
\* from a record marked for deletion the store deletes the record.
RemoveFinalizer(o) == IF o.deleting THEN Deleted ELSE [o EXCEPT !.finalizer = FALSE]

\* status.InExecution()
InExecution == \E j \in JobIds : jobs[j].state = CruiseControlTaskInExecution

\* scaler.UserTasks: the result for a job id, nil when the engine does not know it.
UserTask(id) ==
  IF id \in JobIds /\ jobs[id].state \notin {"none", "evicted"}
    THEN [nil |-> FALSE, taskID |-> id, state |-> jobs[id].state, startedAt |-> 0, err |-> ""]
    ELSE NoRes

kafkaClusterReference(o) == o.ref

\* The records of the list that pass the filter of Reconcile, in list order.
\* filterOperations that does not drop the records that are done.
RECURSIVE filterOperations_keepDone(_, _, _)
filterOperations_keepDone(n, its, ref) ==
  IF n = 0 THEN <<>>
  ELSE IF its[n].exists /\ kafkaClusterReference(its[n]) = ref
          /\ IsCurrentTaskOperationValid(its[n])
    THEN Append(filterOperations_keepDone(n - 1, its, ref), n)
    ELSE filterOperations_keepDone(n - 1, its, ref)

RECURSIVE filterOperations(_, _, _)
filterOperations(n, its, ref) ==
  IF n = 0 THEN <<>>
  ELSE IF its[n].exists /\ kafkaClusterReference(its[n]) = ref
          /\ IsCurrentTaskOperationValid(its[n]) /\ ~IsDone(its[n])
    THEN Append(filterOperations(n - 1, its, ref), n)
    ELSE filterOperations(n - 1, its, ref)

SeqToSet(q) == {q[i] : i \in 1..Len(q)}

\* ------------------------------------------------------- updateCurrentTasks
\* The polling merge: in-memory list after the merge.
polledItems(list, its, t) ==
  [x \in Ops |->
     IF x \in SeqToSet(list) /\ its[x].task.id # NoId /\ ~IsDone(its[x])
       THEN updateResult(UserTask(its[x].task.id), its[x], FALSE, t).op
       ELSE its[x]]

\* changedByPoll that takes every record of the list as changed.
changedByPoll_all(list, before, after) == SeqToSet(list)

\* The records whose status the polling merge changed (reflect.DeepEqual fails).
changedByPoll(list, before, after) ==
  {x \in SeqToSet(list) : Status(after[x]) # Status(before[x])}

\* The status writes of the records the merge changed, in list order, up to the
\* first one that fails (source lines 461-467).
writeChanged(changed, after, store, failing, fr) ==
  [err |-> failing, items |-> after,
   store |-> [x \in Ops |->
                IF x \in changed /\ (failing => x < fr)
                  THEN WithStatus(store[x], after[x]) ELSE store[x]],
   written |-> {x \in changed : failing => x < fr}]

writePolled(changed, after, store, f, fr) ==
  writeChanged(changed, after, store, f = "statusUpdate" /\ fr \in changed, fr)

\* f names the call that fails in this pass, fr the record whose status write fails.
updateCurrentTasks(list, its, store, t, f, fr) ==
  IF f = "userTasks"
    THEN [err |-> TRUE, items |-> its, store |-> store, written |-> {}]
    ELSE writePolled(changedByPoll(list, its, polledItems(list, its, t)),
                     polledItems(list, its, t), store, f, fr)

\* --------------------------------------------------------------- Reconcile
\* postPollRemoval that does not look at the task.
postPollRemoval_anyTask(o) == isFinalizerNeeded(o)

\* The guard goes when the task is not in execution (source line 182).
postPollRemoval(o) == isFinalizerNeeded(o) /\ ~IsCurrentTaskRunning(o)

\* busyGate that looks at the engine's answer only.
busyGate_engineOnly(inExec, q, op) == inExec /\ op # OperationStopExecution

\* The engine is busy and the selection is no stop (source line 207).
busyGate(inExec, q, op) ==
  (inExec \/ Len(q[ccOperationInProgress]) > 0) /\ op # OperationStopExecution

FailPoints == {"none", "list", "update", "getCluster", "scaleFactory", "status", "notReady",
               "userTasks", "statusUpdate"}

Exit(store, its, q, s, b, ret, exit) ==
  [store |-> store, items |-> its, qmap |-> q, sel |-> s, busy |-> b,
   ret |-> ret, exit |-> exit, next |-> "done"]

\* Source lines 200-210: the selection and the busy gate.
ReconcileSelect(store, q, pick, inExec) ==
  IF pick.sel = NoOp
    THEN Exit(store, pick.items, q, NoOp, inExec, "requeueAfter", "nothingSelected")
  ELSE IF busyGate(inExec, q, pick.items[pick.sel].task.op)
    THEN Exit(store, pick.items, q, pick.sel, inExec, "requeueAfter", "busy")
  ELSE [store |-> store, items |-> pick.items, qmap |-> q, sel |-> pick.sel, busy |-> inExec,
        ret |-> "none", exit |-> "none", next |-> "execute"]

\* Source lines 190-198: the queues and the exit when all of them are empty.
ReconcileSort(store, its, q, inExec) ==
  IF \A b \in DOMAIN q : Len(q[b]) = 0
    THEN Exit(store, its, q, NoOp, inExec, "reconciled", "noOperation")
    ELSE ReconcileSelect(store, q, selectOperationForExecution(q, its, now), inExec)

\* Source lines 175-188: the outcome of the poll and the post-poll removal of
\* the guard.
ReconcilePoll(r, f, list, poll, inExec) ==
  IF poll.err
    THEN Exit(poll.store, poll.items, EmptyQueueMap, NoOp, inExec, "requeueAfter", "pollFailed")
  ELSE IF postPollRemoval(poll.items[r]) THEN
    IF f = "update"
      THEN Exit(poll.store, poll.items, EmptyQueueMap, NoOp, inExec, "requeueWithError", "postPoll")
      ELSE Exit([poll.store EXCEPT ![r] = RemoveFinalizer(poll.items[r])], poll.items,
                EmptyQueueMap, NoOp, inExec, "reconciled", "postPoll")
  ELSE ReconcileSort(poll.store, poll.items, sortOperations(list, poll.items), inExec)

\* ReconcileCluster that goes on when the engine answers not ready.
ReconcileCluster_ignoreNotReady(r, f, fr, its, list, inExec) ==
  IF f = "scaleFactory"
    THEN Exit(its, its, EmptyQueueMap, NoOp, FALSE, "requeueWithError", "scaleFactory")
  ELSE IF f = "status"
    THEN Exit(its, its, EmptyQueueMap, NoOp, FALSE, "requeueAfter", "statusError")
  ELSE ReconcilePoll(r, f, list, updateCurrentTasks(list, its, its, now, f, fr), inExec)

\* Source lines 137-179, on the store as addFinalizer left it.
ReconcileCluster(r, f, fr, its, list, inExec) ==
  IF f = "scaleFactory"
    THEN Exit(its, its, EmptyQueueMap, NoOp, FALSE, "requeueWithError", "scaleFactory")
  ELSE IF f = "status"
    THEN Exit(its, its, EmptyQueueMap, NoOp, FALSE, "requeueAfter", "statusError")
  ELSE IF f = "notReady"
    THEN Exit(its, its, EmptyQueueMap, NoOp, inExec, "requeueAfter", "notReady")
  ELSE ReconcilePoll(r, f, list, updateCurrentTasks(list, its, its, now, f, fr), inExec)

\* addFinalizer: a record not marked for deletion gets the guard (source lines 242-256).
addFinalizer(store, r) ==
  IF ~store[r].deleting /\ ~store[r].finalizer
    THEN [store EXCEPT ![r].finalizer = TRUE]
    ELSE store

\* Reconcile from the list up to the decision to dispatch (source lines 76-210)
\* for request r; f names the store or engine call that fails in this pass, or
\* says that the engine answers not ready; fr is the record whose status write fails.
Reconcile(r, f, fr) ==
  IF f = "list" THEN Exit(rec, rec, EmptyQueueMap, NoOp, FALSE, "requeueWithError", "list")
  ELSE IF ~rec[r].exists THEN Exit(rec, rec, EmptyQueueMap, NoOp, FALSE, "reconciled", "notFound")
  ELSE IF isFinalizerNeeded(rec[r]) /\ IsDone(rec[r]) THEN
    IF f = "update"
      THEN Exit(rec, rec, EmptyQueueMap, NoOp, FALSE, "requeueWithError", "fastPath")
      ELSE Exit([rec EXCEPT ![r] = RemoveFinalizer(rec[r])], rec, EmptyQueueMap, NoOp, FALSE,
                "reconciled", "fastPath")
  ELSE IF ~IsCurrentTaskOperationValid(rec[r])
    THEN Exit(rec, rec, EmptyQueueMap, NoOp, FALSE, "reconciled", "invalidOperation")
  ELSE IF kafkaClusterReference(rec[r]) = ""
    THEN Exit(rec, rec, EmptyQueueMap, NoOp, FALSE, "requeueWithError", "noClusterRef")
  ELSE IF f = "getCluster"
    THEN Exit(rec, rec, EmptyQueueMap, NoOp, FALSE, "requeueWithError", "getCluster")
  ELSE IF ~cluster THEN
    IF rec[r].deleting THEN
      IF f = "update"
        THEN Exit(rec, rec, EmptyQueueMap, NoOp, FALSE, "requeueWithError", "clusterNotFound")
        ELSE Exit([rec EXCEPT ![r] = RemoveFinalizer(rec[r])], rec, EmptyQueueMap, NoOp, FALSE,
                  "reconciled", "clusterNotFound")
    ELSE Exit(rec, rec, EmptyQueueMap, NoOp, FALSE, "reconciled", "clusterNotFound")
  ELSE IF addFinalizer(rec, r) # rec /\ f = "update"
    THEN Exit(rec, rec, EmptyQueueMap, NoOp, FALSE, "requeueWithError", "addFinalizer")
  ELSE ReconcileCluster(r, f, fr, addFinalizer(rec, r),
                        filterOperations(Cardinality(Ops), addFinalizer(rec, r),
                                         kafkaClusterReference(rec[r])),
                        InExecution)

\* The pass takes the outcome of Reconcile into its locals and the store.
StartPass(r, out) ==
  /\ rec' = out.store
  /\ items' = out.items
  /\ qmap' = out.qmap
  /\ sel' = out.sel
  /\ busy' = out.busy
  /\ result' = [ret |-> out.ret, exit |-> out.exit]
  /\ pc' = out.next
  /\ trig' = r
  /\ passNow' = now
  /\ res' = NoRes
  /\ stale' = FALSE
  /\ UNCHANGED <<cluster, now, jobs>>

ReconcileStart(r, f, fr) ==
  /\ pc = "idle"
  /\ StartPass(r, Reconcile(r, f, fr))

\* -------------------------------------------------------- executeOperation
DispatchOutcomes == {"errNoResult", "okActive", "okCompleted", "okCompletedWithError",
                     "errWithId", "errNoId", "errNoStart"}

FreeJobs == {j \in JobIds : jobs[j].state = "none"}
NextJob == CHOOSE j \in FreeJobs : \A k \in FreeJobs : j <= k

CreatesJob(o) == o \in {"okActive", "okCompleted", "okCompletedWithError", "errWithId"}

\* The *scale.Result a dispatch verb returns for outcome o (nil for errNoResult).
DispatchResult(o, t) ==
  CASE o = "okActive" ->
         [nil |-> FALSE, taskID |-> NextJob, state |-> CruiseControlTaskActive, startedAt |-> t, err |-> ""]
    [] o = "okCompleted" ->
         [nil |-> FALSE, taskID |-> NextJob, state |-> CruiseControlTaskCompleted, startedAt |-> t, err |-> ""]
    [] o = "okCompletedWithError" ->
         [nil |-> FALSE, taskID |-> NextJob, state |-> CruiseControlTaskCompletedWithError,
          startedAt |-> t, err |-> ""]
    [] o = "errWithId" ->
         [nil |-> FALSE, taskID |-> NextJob, state |-> CruiseControlTaskCompletedWithError,
          startedAt |-> t, err |-> "error"]
    [] o = "errNoId" ->
         [nil |-> FALSE, taskID |-> NoId, state |-> CruiseControlTaskCompletedWithError,
          startedAt |-> t, err |-> "error"]
    [] o = "errNoStart" ->
         [nil |-> FALSE, taskID |-> NoId, state |-> CruiseControlTaskCompletedWithError,
          startedAt |-> NoTime, err |-> "error"]
    [] OTHER -> NoRes

\* The engine's user tasks after the dispatch verb for operation kind ran with
\* outcome o: a new task for the request and, for an accepted stop, every
\* running task ended in state stopTo.
DispatchJobs(kind, owner, o, stopTo) ==
  LET stopped == [j \in JobIds |->
                    IF kind = OperationStopExecution /\ o \in {"okActive", "okCompleted"}
                       /\ jobs[j].state \in {CruiseControlTaskActive, CruiseControlTaskInExecution}
                      THEN [jobs[j] EXCEPT !.state = stopTo]
                      ELSE jobs[j]]
  IN IF CreatesJob(o)
       THEN [stopped EXCEPT ![NextJob] = [state |-> DispatchResult(o, 0).state,
                                         owner |-> IF kind = OperationStopExecution THEN NoOp ELSE owner]]
       ELSE stopped

\* Execute without the return on an error with a nil result: the pass goes on
\* to the merge and the status write.
Execute_noNilCheck(o, stopTo) ==
  /\ pc = "execute"
  /\ CreatesJob(o) => FreeJobs # {}
  /\ o # "errNoResult" => Len(items[sel].failedTasks) < MaxRetry
  /\ IsCurrentTaskOperationValid(items[sel])
  /\ res' = DispatchResult(o, 0)
  /\ jobs' = DispatchJobs(items[sel].task.op, sel, o, stopTo)
  /\ pc' = "persist"
  /\ UNCHANGED <<rec, cluster, now, items, qmap, sel, busy, passNow, stale, trig, result>>

\* executeOperation and the nil-result check that follows it (source lines 214-222).
Execute(o, stopTo) ==
  /\ pc = "execute"
  /\ CreatesJob(o) => FreeJobs # {}
  /\ o # "errNoResult" => Len(items[sel].failedTasks) < MaxRetry
  /\ IsCurrentTaskOperationValid(items[sel])
  /\ res' = DispatchResult(o, 0)
  /\ jobs' = DispatchJobs(items[sel].task.op, sel, o, stopTo)
  /\ IF o = "errNoResult"
       THEN /\ pc' = "done"
            /\ result' = [ret |-> "requeueWithError", exit |-> "dispatchError"]
       ELSE /\ pc' = "persist"
            /\ UNCHANGED result
  /\ UNCHANGED <<rec, cluster, now, items, qmap, sel, busy, passNow, stale, trig>>

\* ------------------------------------------------- conflict-retried persist
PersistFailPoints == {"none", "statusUpdate", "get"}

\* The status write of the merged record m and, on a conflict, the re-fetch,
\* whose error is what the closure returns (source lines 228-232).
writeOrRefetch(m, stored, isStale, updateErr, getErr) ==
  IF m.err
    THEN [err |-> "other", mem |-> m.op, stored |-> stored, stale |-> isStale, written |-> FALSE]
  ELSE IF updateErr = "conflict"
    THEN [err |-> getErr, mem |-> IF getErr = "nil" THEN stored ELSE m.op,
          stored |-> stored, stale |-> getErr # "nil", written |-> FALSE]
  ELSE IF updateErr = "nil"
    THEN [err |-> "nil", mem |-> WithStatus(stored, m.op), stored |-> WithStatus(stored, m.op),
          stale |-> FALSE, written |-> TRUE]
  ELSE [err |-> updateErr, mem |-> m.op, stored |-> stored, stale |-> isStale, written |-> FALSE]

\* One run of conflictRetryFunction (source lines 224-233): merge, status write,
\* and on a conflict the re-fetch.
conflictRetryFunction(mem, stored, isStale, f, t) ==
  writeOrRefetch(updateResult(res, mem, TRUE, t), stored, isStale,
                 IF ~stored.exists \/ f = "statusUpdate" THEN "other"
                 ELSE IF isStale THEN "conflict"
                 ELSE "nil",
                 IF f = "get" THEN "other" ELSE "nil")

\* util.RetryOnConflict: run fn again while it returns a conflict, at most n times.
RECURSIVE RetryOnConflict(_, _, _, _, _, _)
RECURSIVE retryWhileConflict(_, _, _)
retryWhileConflict(n, out, t) ==
  IF out.err = "conflict" /\ n > 1
    THEN RetryOnConflict(n - 1, out.mem, out.stored, out.stale, "none", t)
    ELSE out

RetryOnConflict(n, mem, stored, isStale, f, t) ==
  retryWhileConflict(n, conflictRetryFunction(mem, stored, isStale, f, t), t)

\* The pass ends with what the conflict-retried write returned (source lines 235-239).
EndPass(out) ==
  /\ rec' = [rec EXCEPT ![sel] = out.stored]
  /\ items' = [items EXCEPT ![sel] = out.mem]
  /\ stale' = out.stale
  /\ result' = IF out.err = "nil"
                 THEN [ret |-> "reconciled", exit |-> "executed"]
                 ELSE [ret |-> "requeueWithError", exit |-> "persistFailed"]
  /\ pc' = "done"
  /\ UNCHANGED <<cluster, now, jobs, qmap, sel, busy, passNow, res, trig>>

Persist(f) ==
  /\ pc = "persist"
  /\ EndPass(RetryOnConflict(MaxConflictRetries, items[sel], rec[sel], stale, f, now))

\* The pass hands its result to the work queue; its locals go out of scope.
Return ==
  /\ pc = "done"
  /\ pc' = "idle"
  /\ items' = [x \in Ops |-> Absent]
  /\ qmap' = EmptyQueueMap
  /\ sel' = NoOp
  /\ busy' = FALSE
  /\ passNow' = 0
  /\ res' = NoRes
  /\ stale' = FALSE
  /\ trig' = NoOp
  /\ result' = NoResult
  /\ UNCHANGED <<rec, cluster, now, jobs>>

\* ------------------------------------------------------------- environment
\* A pass is short against the user, the clock and the engine: their steps are
\* taken between passes, except the one that matters inside a pass, a store
\* write to the selected record between its listing and its status write.
passLocals == <<pc, items, qmap, sel, busy, passNow, res, trig, result>>

CreateOperation(r, kind, policy, ref) ==
  /\ pc = "idle"
  /\ rec[r] = Absent
  /\ rec' = [rec EXCEPT ![r] = [Absent EXCEPT !.exists = TRUE, !.created = now, !.ref = ref,
                                              !.specPolicy = policy, !.task = EmptyTask(kind)]]
  /\ UNCHANGED <<cluster, now, jobs, stale>>
  /\ UNCHANGED passLocals

\* The user deletes the record: the store marks it while it carries the guard.
MarkForDeletion(r) ==
  /\ pc = "idle" \/ (pc = "persist" /\ r = sel)
  /\ rec[r].exists /\ ~rec[r].deleting
  /\ rec' = [rec EXCEPT ![r] = IF @.finalizer THEN [@ EXCEPT !.deleting = TRUE] ELSE Deleted]
  /\ stale' = (pc = "persist")
  /\ UNCHANGED <<cluster, now, jobs>>
  /\ UNCHANGED passLocals

DeleteKafkaCluster ==
  /\ pc = "idle"
  /\ cluster
  /\ cluster' = FALSE
  /\ UNCHANGED <<rec, now, jobs, stale>>
  /\ UNCHANGED passLocals

EngineAdvance(j, st) ==
  /\ pc = "idle"
  /\ \/ jobs[j].state = CruiseControlTaskActive /\ st = CruiseControlTaskInExecution
     \/ jobs[j].state = CruiseControlTaskInExecution /\ st \in TerminalStates
  /\ jobs' = [jobs EXCEPT ![j].state = st]
  /\ UNCHANGED <<rec, cluster, now, stale>>
  /\ UNCHANGED passLocals

\* The engine drops a finished task from its cache of completed user tasks.
EngineEvict(j) ==
  /\ pc = "idle"
  /\ jobs[j].state \in TerminalStates
  /\ jobs' = [jobs EXCEPT ![j].state = "evicted"]
  /\ UNCHANGED <<rec, cluster, now, stale>>
  /\ UNCHANGED passLocals

\* The clock is read in steps of one backoff window and a second.
TickSeconds == DefaultRetryBackOffDurationSec + 1

Tick ==
  /\ pc = "idle"
  /\ now < MaxTicks * TickSeconds
  /\ now' = now + TickSeconds
  /\ UNCHANGED <<rec, cluster, jobs, stale>>
  /\ UNCHANGED passLocals

\* ------------------------------------------------------------ specification
\* The steps of a pass, with their inputs.
Pass ==
  \/ \E r \in Ops, f \in FailPoints, fr \in Ops :
       /\ f # "statusUpdate" => fr = 1
       /\ ReconcileStart(r, f, fr)
  \/ \E o \in DispatchOutcomes, stopTo \in TerminalStates :
       /\ (pc = "execute" /\ items[sel].task.op # OperationStopExecution)
            => stopTo = CruiseControlTaskCompleted
       /\ Execute(o, stopTo)
  \/ \E f \in PersistFailPoints : Persist(f)

Init ==
  /\ rec = [x \in 1..NumOps |-> Absent]
  /\ cluster = TRUE
  /\ now = 0
  /\ jobs = [j \in 1..MaxJobs |-> NoJob]
  /\ pc = "idle"
  /\ items = [x \in 1..NumOps |-> Absent]
  /\ qmap = EmptyQueueMap
  /\ sel = NoOp
  /\ busy = FALSE
  /\ passNow = 0
  /\ res = NoRes
  /\ stale = FALSE
  /\ trig = NoOp
  /\ result = NoResult

Next ==
  \/ Pass
  \/ Return
  \/ \E r \in Ops, kind \in CreatableKinds, policy \in ErrorPolicies, ref \in ClusterRefs :
       CreateOperation(r, kind, policy, ref)
  \/ \E r \in Ops : MarkForDeletion(r)
  \/ DeleteKafkaCluster
  \/ \E j \in JobIds, st \in {CruiseControlTaskInExecution} \cup TerminalStates : EngineAdvance(j, st)
  \/ \E j \in JobIds : EngineEvict(j)
  \/ Tick

Spec == Init /\ [][Next]_vars

\* --------------------------------------------------- the lifecycle, fair
\* The lifecycle of Spec with fewer ways to fail (the engine not ready, the
\* bulk poll, a store update, the status write) and fewer dispatch outcomes
\* (accepted, failed at once, error without result), under what the
\* scheduling gives: a pass that was started goes on to its end; the work
\* queue runs requeued and event-triggered passes again and again, and among
\* them passes in which every call succeeds; the engine takes every job it
\* accepted into execution and to a terminal state.
LiveFailPoints == {"none", "notReady", "userTasks", "update"}
LiveOutcomes == {"okActive", "okCompletedWithError", "errNoResult"}

LiveStart == \E r \in Ops, f \in LiveFailPoints : ReconcileStart(r, f, 1)

LiveExecute == \E o \in LiveOutcomes : Execute(o, CruiseControlTaskCompleted)

LivePersist == \E f \in {"none", "statusUpdate"} : Persist(f)

NextLive ==
  \/ LiveStart
  \/ LiveExecute
  \/ LivePersist
  \/ Return
  \/ \E r \in Ops, policy \in ErrorPolicies :
       CreateOperation(r, OperationRebalance, policy, KafkaClusterName)
  \/ \E r \in Ops : MarkForDeletion(r)
  \/ DeleteKafkaCluster
  \/ \E j \in JobIds, st \in {CruiseControlTaskInExecution} \cup TerminalStates : EngineAdvance(j, st)
  \/ \E j \in JobIds : EngineEvict(j)
  \/ Tick

PassRuns(r) == ReconcileStart(r, "none", 1)

PassGoesOn == LiveExecute \/ LivePersist \/ Return

EngineWorks(j) ==
  \E st \in {CruiseControlTaskInExecution} \cup TerminalStates : EngineAdvance(j, st)

\* PassRuns(r) is enabled exactly when no pass is under way, so its strong
\* fairness is written with that condition.
Fairness ==
  /\ WF_vars(PassGoesOn)
  /\ \A r \in 1..NumOps : []<>(pc = "idle") => []<><<PassRuns(r)>>_vars
  /\ \A j \in 1..MaxJobs : SF_vars(EngineWorks(j))

SpecLive == Init /\ [][NextLive]_vars /\ Fairness

\* ------------------------------------------- one pass over a populated store
\* The states a record is in along its life, as the lifecycle actions leave it:
\* never dispatched; dispatched and running; running and marked for deletion;
\* failed (retry policy) with the backoff window elapsed or not; completed; and
\* completed by the immediate result of a retry dispatch (Finished was reset by
\* the archive and never stamped again), then marked for deletion.
SelectKinds == {OperationAddBroker, OperationRemoveBroker, OperationRebalance}
Phases == {"fresh", "running", "stopping", "failedReady", "failedWaiting",
           "completed", "completedUnfinished"}
DonePhases == {"completed", "completedUnfinished"}
PassTime == 40
CreationTimes == {0, 1}

Shape(i, kind, created, phase) ==
  LET base == [Absent EXCEPT !.exists = TRUE, !.created = created, !.ref = KafkaClusterName,
                             !.specPolicy = ErrorPolicyRetry, !.task = EmptyTask(kind)]
      sent == [base EXCEPT !.finalizer = TRUE, !.statusPolicy = ErrorPolicyRetry,
                           !.task.id = i, !.task.started = 0]
  IN CASE phase = "fresh" -> base
       [] phase = "running" -> [sent EXCEPT !.task.state = CruiseControlTaskActive]
       [] phase = "stopping" -> [sent EXCEPT !.task.state = CruiseControlTaskActive, !.deleting = TRUE]
       [] phase = "failedReady" ->
            [sent EXCEPT !.task.state = CruiseControlTaskCompletedWithError,
                         !.task.finished = PassTime - DefaultRetryBackOffDurationSec - 1]
       [] phase = "failedWaiting" ->
            [sent EXCEPT !.task.state = CruiseControlTaskCompletedWithError,
                         !.task.finished = PassTime - DefaultRetryBackOffDurationSec]
       [] phase = "completed" ->
            [sent EXCEPT !.task.state = CruiseControlTaskCompleted, !.task.finished = 0]
       [] OTHER ->
            [sent EXCEPT !.task.state = CruiseControlTaskCompleted, !.deleting = TRUE,
                         !.retryCount = 1,
                         !.failedTasks = <<[EmptyTask(kind) EXCEPT
                                              !.state = CruiseControlTaskCompletedWithError,
                                              !.started = 0, !.finished = 0, !.err = "error"]>>]

JobOfShape(phase) ==
  CASE phase = "fresh" -> NoJob
    [] phase \in {"running", "stopping"} -> [state |-> CruiseControlTaskActive, owner |-> NoOp]
    [] phase \in DonePhases -> [state |-> CruiseControlTaskCompleted, owner |-> NoOp]
    [] OTHER -> [state |-> CruiseControlTaskCompletedWithError, owner |-> NoOp]

InitPass ==
  /\ \E kinds \in [1..NumListed -> SelectKinds], times \in [1..NumListed -> CreationTimes],
        phases \in [1..NumListed -> Phases], other \in BOOLEAN :
       /\ Cardinality({i \in 1..NumListed : phases[i] \in {"running", "stopping"}}) <= 1
       /\ Cardinality({i \in 1..NumListed : phases[i] \in DonePhases}) <= 1
       /\ rec = [i \in 1..NumListed |-> Shape(i, kinds[i], times[i], phases[i])]
       /\ jobs = [j \in 1..(NumListed + 2) |->
                    IF j <= NumListed THEN [JobOfShape(phases[j]) EXCEPT !.owner = IF phases[j] = "fresh" THEN NoOp ELSE j]
                    ELSE IF j = NumListed + 1 /\ other
                      THEN [state |-> CruiseControlTaskInExecution, owner |-> NoOp]
                    ELSE NoJob]
  /\ cluster = TRUE
  /\ now = PassTime
  /\ pc = "idle"
  /\ items = [x \in 1..NumListed |-> Absent]
  /\ qmap = EmptyQueueMap
  /\ sel = NoOp
  /\ busy = FALSE
  /\ passNow = 0
  /\ res = NoRes
  /\ stale = FALSE
  /\ trig = NoOp
  /\ result = NoResult

\* One pass, every call of which succeeds, up to the decision to dispatch.
SelectPass == \E r \in Ops : ReconcileStart(r, "none", 1)

SpecPass == InitPass /\ [][SelectPass]_vars

\* ------------------------------------- a record failing attempt after attempt
\* One record under the retry policy whose every dispatch returns a result in
\* state CompletedWithError: the post-execution merges of its successive
\* attempts, the attempts numbered by their job ids.
MaxArchived == 52

HistoryResult(o) ==
  [nil |-> FALSE, taskID |-> IF o.task.id = NoId THEN 1 ELSE o.task.id + 1,
   state |-> CruiseControlTaskCompletedWithError, startedAt |-> 0, err |-> ""]

InitHistory ==
  /\ \E kind \in SelectKinds :
       rec = [x \in 1..1 |-> [Absent EXCEPT !.exists = TRUE, !.finalizer = TRUE,
                                            !.ref = KafkaClusterName,
                                            !.specPolicy = ErrorPolicyRetry,
                                            !.task = EmptyTask(kind)]]
  /\ cluster = TRUE
  /\ now = 0
  /\ jobs = [j \in 1..1 |-> NoJob]
  /\ pc = "idle"
  /\ items = [x \in 1..1 |-> Absent]
  /\ qmap = EmptyQueueMap
  /\ sel = NoOp
  /\ busy = FALSE
  /\ passNow = 0
  /\ res = NoRes
  /\ stale = FALSE
  /\ trig = NoOp
  /\ result = NoResult

\* The post-execution merge of the next attempt and its status write.
HistoryMerge ==
  /\ rec[1].retryCount < MaxArchived
  /\ rec' = [rec EXCEPT ![1] = updateResult(HistoryResult(rec[1]), rec[1], TRUE, now).op]
  /\ UNCHANGED <<cluster, now, jobs, stale>>
  /\ UNCHANGED passLocals

SpecHistory == InitHistory /\ [][HistoryMerge]_vars

\* -------------------------------------------------- the guard as a list entry
\* The metadata of one record with its finalizers as the list the store keeps:
\* the guard of this controller among the finalizers of other controllers.
ccOperationFinalizerGroup == "finalizer.cruisecontroloperations.kafka.banzaicloud.io"
ForeignFinalizers == {"foreign/a", "foreign/b", "foreign/c"}

\* controllerutil.ContainsFinalizer, AddFinalizer (add if absent) and
\* RemoveFinalizer (every occurrence) on a list of finalizers.
ContainsFinalizer(fs, f) == \E i \in 1..Len(fs) : fs[i] = f

AddFinalizer(fs, f) == IF ContainsFinalizer(fs, f) THEN fs ELSE Append(fs, f)

RemoveFinalizerFrom(fs, f) == SelectSeq(fs, LAMBDA e : e # f)

\* The store after r.Update of the object: a record marked for deletion goes
\* once its list of finalizers is empty.
UpdateObject(o) == IF o.deleting /\ o.finalizers = <<>> THEN [o EXCEPT !.exists = FALSE] ELSE o

\* addFinalizer without the test for the guard being there already.
addFinalizerOnObject_noContainsCheck(o) ==
  IF ~o.deleting
    THEN [obj |-> [o EXCEPT !.finalizers = AddFinalizer(o.finalizers, ccOperationFinalizerGroup)],
          wrote |-> TRUE]
    ELSE [obj |-> o, wrote |-> FALSE]

\* addFinalizer (source lines 242-256): the object after the call and whether
\* r.Update was called.
addFinalizerOnObject(o) ==
  IF ~o.deleting /\ ~ContainsFinalizer(o.finalizers, ccOperationFinalizerGroup)
    THEN [obj |-> [o EXCEPT !.finalizers = AddFinalizer(o.finalizers, ccOperationFinalizerGroup)],
          wrote |-> TRUE]
    ELSE [obj |-> o, wrote |-> FALSE]

GuardCall(name, wrote) == [ret |-> "none", exit |-> name, wrote |-> wrote]

InitGuard ==
  /\ rec = [x \in 1..1 |-> [exists |-> TRUE, deleting |-> FALSE, finalizers |-> <<>>]]
  /\ cluster = TRUE
  /\ now = 0
  /\ jobs = [j \in 1..1 |-> NoJob]
  /\ pc = "idle"
  /\ items = [x \in 1..1 |-> Absent]
  /\ qmap = EmptyQueueMap
  /\ sel = NoOp
  /\ busy = FALSE
  /\ passNow = 0
  /\ res = NoRes
  /\ stale = FALSE
  /\ trig = NoOp
  /\ result = GuardCall("none", FALSE)

GuardFrame == UNCHANGED <<cluster, now, jobs, pc, items, qmap, sel, busy, passNow, res, stale, trig>>

\* The store takes the object a call produced, when the call wrote it.
GuardWrite(out, name) ==
  /\ rec' = [rec EXCEPT ![1] = IF out.wrote THEN UpdateObject(out.obj) ELSE @]
  /\ result' = GuardCall(name, out.wrote)
  /\ GuardFrame

\* A pass reaches addFinalizer (source line 137).
GuardAdd ==
  /\ rec[1].exists
  /\ GuardWrite(addFinalizerOnObject(rec[1]), "addFinalizer")

\* A pass removes the guard on the fast path or after the poll (source lines
\* 101-103 and 182-184): isFinalizerNeeded holds.
GuardRemove ==
  /\ rec[1].exists
  /\ ContainsFinalizer(rec[1].finalizers, ccOperationFinalizerGroup) /\ rec[1].deleting
  /\ GuardWrite([obj |-> [rec[1] EXCEPT !.finalizers =
                                     RemoveFinalizerFrom(@, ccOperationFinalizerGroup)],
                 wrote |-> TRUE], "removeFinalizer")

\* A pass does not find the cluster of a record marked for deletion (source
\* lines 124-130): the guard is removed whether the record carries it or not.
GuardRemoveClusterNotFound ==
  /\ rec[1].exists /\ rec[1].deleting
  /\ GuardWrite([obj |-> [rec[1] EXCEPT !.finalizers =
                                     RemoveFinalizerFrom(@, ccOperationFinalizerGroup)],
                 wrote |-> TRUE], "clusterNotFound")

\* Another controller attaches or removes its own finalizer.
ForeignAdd(f) ==
  /\ rec[1].exists /\ ~rec[1].deleting
  /\ ~ContainsFinalizer(rec[1].finalizers, f)
  /\ GuardWrite([obj |-> [rec[1] EXCEPT !.finalizers = AddFinalizer(@, f)], wrote |-> TRUE],
                "foreignAdd")

ForeignRemove(f) ==
  /\ rec[1].exists
  /\ ContainsFinalizer(rec[1].finalizers, f)
  /\ GuardWrite([obj |-> [rec[1] EXCEPT !.finalizers = RemoveFinalizerFrom(@, f)], wrote |-> TRUE],
                "foreignRemove")

\* The user deletes the record.
GuardMarkForDeletion ==
  /\ rec[1].exists /\ ~rec[1].deleting
  /\ GuardWrite([obj |-> [rec[1] EXCEPT !.deleting = TRUE], wrote |-> TRUE], "delete")

NextGuard ==
  \/ GuardAdd
  \/ GuardRemove
  \/ GuardRemoveClusterNotFound
  \/ \E f \in ForeignFinalizers : ForeignAdd(f)
  \/ \E f \in ForeignFinalizers : ForeignRemove(f)
  \/ GuardMarkForDeletion

SpecGuard == InitGuard /\ [][NextGuard]_vars

\* ------------------------------------------------------- the poll of a pass
\* A populated store and an engine whose answer for each job id is independent
\* of what the store holds: one pass up to the decision to dispatch, with the
\* status writes of its poll on record.
NumPolled == 3
PollPhases == {"fresh", "running", "runningPolicy", "failedWaiting", "completed", "otherCluster"}
PollJobStates == {"none", CruiseControlTaskActive, CruiseControlTaskInExecution,
                  CruiseControlTaskCompleted, CruiseControlTaskCompletedWithError}
PollFailPoints == {"none", "userTasks", "statusUpdate"}
PollKinds == <<OperationAddBroker, OperationRemoveBroker, OperationRebalance, OperationRebalance>>

\* runningPolicy: the record's Spec.ErrorPolicy differs from the copy in its
\* status; otherCluster: the record refers to another Kafka cluster.
PollShape(i, phase) ==
  CASE phase = "runningPolicy" ->
         [Shape(i, PollKinds[i], 0, "running") EXCEPT !.specPolicy = ErrorPolicyIgnore]
    [] phase = "otherCluster" ->
         [Shape(i, PollKinds[i], 0, "running") EXCEPT !.ref = "other"]
    [] OTHER -> Shape(i, PollKinds[i], 0, phase)

InitPoll ==
  /\ \E phases \in [1..NumPolled -> PollPhases], states \in [1..NumPolled -> PollJobStates] :
       /\ rec = [i \in 1..NumPolled |-> PollShape(i, phases[i])]
       /\ jobs = [j \in 1..NumPolled |->
                    IF states[j] = "none" THEN NoJob ELSE [state |-> states[j], owner |-> j]]
  /\ cluster = TRUE
  /\ now = PassTime
  /\ pc = "idle"
  /\ items = [x \in 1..NumPolled |-> Absent]
  /\ qmap = EmptyQueueMap
  /\ sel = NoOp
  /\ busy = FALSE
  /\ passNow = 0
  /\ res = NoRes
  /\ stale = FALSE
  /\ trig = NoOp
  /\ result = [ret |-> "none", exit |-> "none", written |-> {}, failed |-> "none", failedAt |-> NoOp]

\* The pass reached updateCurrentTasks (source line 175).
ReachesPoll(out) ==
  out.next = "execute"
    \/ out.exit \in {"pollFailed", "postPoll", "noOperation", "nothingSelected", "busy"}

\* updateCurrentTasks as Reconcile calls it for request r (source lines 158-175).
PollOf(r, f, fr) ==
  updateCurrentTasks(filterOperations(Cardinality(Ops), addFinalizer(rec, r),
                                      kafkaClusterReference(rec[r])),
                     addFinalizer(rec, r), addFinalizer(rec, r), now, f, fr)

\* The pass takes the outcome of Reconcile and keeps the writes of its poll.
PollStep(r, f, fr, out) ==
  /\ rec' = out.store
  /\ items' = out.items
  /\ qmap' = out.qmap
  /\ sel' = out.sel
  /\ busy' = out.busy
  /\ result' = [ret |-> out.ret, exit |-> out.exit,
                written |-> IF ReachesPoll(out) THEN PollOf(r, f, fr).written ELSE {},
                failed |-> f, failedAt |-> fr]
  /\ pc' = out.next
  /\ trig' = r
  /\ passNow' = now
  /\ res' = NoRes
  /\ stale' = FALSE
  /\ UNCHANGED <<cluster, now, jobs>>

PollPass ==
  /\ pc = "idle"
  /\ \E r \in Ops, f \in PollFailPoints, fr \in Ops : PollStep(r, f, fr, Reconcile(r, f, fr))

SpecPoll == InitPoll /\ [][PollPass]_vars

\* ------------------------------------------------- two passes at the same time
\* Two workers of the controller run passes for different requests against the
\* same store and engine. Each worker has the locals of its own pass: pc, items,
\* qmap, sel, busy, passNow, res, stale, trig and result are here functions of
\* the worker. A pass is cut where Spec cuts it: the reads up to the decision to
\* dispatch, the dispatch verb, the merge with its status write, the return.
NumWorkers == 2
NumRaced == 2
Workers == 1..NumWorkers
RaceOutcomes == {"okActive", "errNoResult"}

InitRace ==
  /\ \E kinds \in [1..NumRaced -> SelectKinds], times \in [1..NumRaced -> CreationTimes] :
       rec = [i \in 1..NumRaced |->
                [Absent EXCEPT !.exists = TRUE, !.created = times[i], !.ref = KafkaClusterName,
                               !.specPolicy = ErrorPolicyRetry, !.task = EmptyTask(kinds[i])]]
  /\ cluster = TRUE
  /\ now = 0
  /\ jobs = [j \in 1..MaxJobs |-> NoJob]
  /\ pc = [w \in Workers |-> "idle"]
  /\ items = [w \in Workers |-> [x \in 1..NumRaced |-> Absent]]
  /\ qmap = [w \in Workers |-> EmptyQueueMap]
  /\ sel = [w \in Workers |-> NoOp]
  /\ busy = [w \in Workers |-> FALSE]
  /\ passNow = [w \in Workers |-> 0]
  /\ res = [w \in Workers |-> NoRes]
  /\ stale = [w \in Workers |-> FALSE]
  /\ trig = [w \in Workers |-> NoOp]
  /\ result = [w \in Workers |-> NoResult]

\* The copy worker v holds of its selected record is out of date once another
\* worker has written that record to the store.
StaleAfter(v, store) ==
  stale[v] \/ (pc[v] \in {"execute", "persist"} /\ store[sel[v]] # rec[sel[v]])

\* Worker w takes the outcome of Reconcile into its locals and the store.
RaceStartWith(w, r, out) ==
  /\ rec' = out.store
  /\ items' = [items EXCEPT ![w] = out.items]
  /\ qmap' = [qmap EXCEPT ![w] = out.qmap]
  /\ sel' = [sel EXCEPT ![w] = out.sel]
  /\ busy' = [busy EXCEPT ![w] = out.busy]
  /\ result' = [result EXCEPT ![w] = [ret |-> out.ret, exit |-> out.exit]]
  /\ pc' = [pc EXCEPT ![w] = out.next]
  /\ trig' = [trig EXCEPT ![w] = r]
  /\ passNow' = [passNow EXCEPT ![w] = now]
  /\ res' = [res EXCEPT ![w] = NoRes]
  /\ stale' = [v \in Workers |-> IF v = w THEN FALSE ELSE StaleAfter(v, out.store)]
  /\ UNCHANGED <<cluster, now, jobs>>

\* Reconcile up to the decision to dispatch (source lines 76-210). The work
\* queue hands a request to one worker at a time.
RaceStart(w, r) ==
  /\ pc[w] = "idle"
  /\ \A v \in Workers \ {w} : pc[v] = "idle" \/ trig[v] # r
  /\ RaceStartWith(w, r, Reconcile(r, "none", 1))

\* RaceExecute under a lease on the cluster: no dispatch while another worker
\* has dispatched and not yet recorded its result.
RaceExecute_leased(w, o) ==
  /\ pc[w] = "execute"
  /\ \A v \in Workers \ {w} : pc[v] # "persist"
  /\ CreatesJob(o) => FreeJobs # {}
  /\ res' = [res EXCEPT ![w] = DispatchResult(o, 0)]
  /\ jobs' = DispatchJobs(items[w][sel[w]].task.op, sel[w], o, CruiseControlTaskCompleted)
  /\ pc' = [pc EXCEPT ![w] = IF o = "errNoResult" THEN "done" ELSE "persist"]
  /\ result' = [result EXCEPT ![w] = IF o = "errNoResult"
                                       THEN [ret |-> "requeueWithError", exit |-> "dispatchError"]
                                       ELSE @]
  /\ UNCHANGED <<rec, cluster, now, items, qmap, sel, busy, passNow, stale, trig>>

\* executeOperation and the nil-result check (source lines 214-222).
RaceExecute(w, o) ==
  /\ pc[w] = "execute"
  /\ CreatesJob(o) => FreeJobs # {}
  /\ res' = [res EXCEPT ![w] = DispatchResult(o, 0)]
  /\ jobs' = DispatchJobs(items[w][sel[w]].task.op, sel[w], o, CruiseControlTaskCompleted)
  /\ pc' = [pc EXCEPT ![w] = IF o = "errNoResult" THEN "done" ELSE "persist"]
  /\ result' = [result EXCEPT ![w] = IF o = "errNoResult"
                                       THEN [ret |-> "requeueWithError", exit |-> "dispatchError"]
                                       ELSE @]
  /\ UNCHANGED <<rec, cluster, now, items, qmap, sel, busy, passNow, stale, trig>>

\* Worker w ends its pass with what conflictRetryFunction returned.
RaceEndPass(w, out) ==
  /\ rec' = [rec EXCEPT ![sel[w]] = out.stored]
  /\ items' = [items EXCEPT ![w][sel[w]] = out.mem]
  /\ stale' = [v \in Workers |->
                 IF v = w THEN out.stale
                 ELSE StaleAfter(v, [rec EXCEPT ![sel[w]] = out.stored])]
  /\ result' = [result EXCEPT ![w] = IF out.err = "nil"
                                       THEN [ret |-> "reconciled", exit |-> "executed"]
                                       ELSE [ret |-> "requeueWithError", exit |-> "persistFailed"]]
  /\ pc' = [pc EXCEPT ![w] = "done"]
  /\ UNCHANGED <<cluster, now, jobs, qmap, sel, busy, passNow, res, trig>>

\* The merge and the status write (source lines 224-237), the store answering
\* every call: on a conflict the re-fetch succeeds and its nil is returned.
RacePersist(w) ==
  /\ pc[w] = "persist"
  /\ RaceEndPass(w, writeOrRefetch(updateResult(res[w], items[w][sel[w]], TRUE, now),
                                   rec[sel[w]], stale[w],
                                   IF stale[w] THEN "conflict" ELSE "nil", "nil"))

RaceReturn(w) ==
  /\ pc[w] = "done"
  /\ pc' = [pc EXCEPT ![w] = "idle"]
  /\ items' = [items EXCEPT ![w] = [x \in Ops |-> Absent]]
  /\ qmap' = [qmap EXCEPT ![w] = EmptyQueueMap]
  /\ sel' = [sel EXCEPT ![w] = NoOp]
  /\ busy' = [busy EXCEPT ![w] = FALSE]
  /\ passNow' = [passNow EXCEPT ![w] = 0]
  /\ res' = [res EXCEPT ![w] = NoRes]
  /\ stale' = [stale EXCEPT ![w] = FALSE]
  /\ trig' = [trig EXCEPT ![w] = NoOp]
  /\ result' = [result EXCEPT ![w] = NoResult]
  /\ UNCHANGED <<rec, cluster, now, jobs>>

NextRace ==
  \/ \E w \in Workers, r \in Ops : RaceStart(w, r)
  \/ \E w \in Workers, o \in RaceOutcomes : RaceExecute(w, o)
  \/ \E w \in Workers : RacePersist(w)
  \/ \E w \in Workers : RaceReturn(w)

SpecRace == InitRace /\ [][NextRace]_vars

\* ------------------------------------------------- the exits of a pass
\* One pass over a store whose records may be absent, of an unsupported kind,
\* without cluster reference or of another cluster, with the Kafka cluster
\* there or not, any one call of the pass failing; the failing call is kept
\* with the result of the pass.
NumExits == 2
ExitPhases == {"fresh", "running", "failedWaiting", "completed", "otherCluster",
               "unsupported", "noRef", "absent"}
ExitJobStates == {"none", CruiseControlTaskActive, CruiseControlTaskCompleted}

ExitShape(i, phase) ==
  CASE phase = "unsupported" ->
         [Shape(i, PollKinds[i], 0, "fresh") EXCEPT !.task.op = "unsupported"]
    [] phase = "noRef" -> [Shape(i, PollKinds[i], 0, "fresh") EXCEPT !.ref = ""]
    [] phase = "absent" -> Absent
    [] OTHER -> PollShape(i, phase)

InitExits ==
  /\ \E phases \in [1..NumExits -> ExitPhases], states \in [1..NumExits -> ExitJobStates] :
       /\ rec = [i \in 1..NumExits |-> ExitShape(i, phases[i])]
       /\ jobs = [j \in 1..(NumExits + 1) |->
                    IF j > NumExits \/ states[j] = "none"
                      THEN NoJob ELSE [state |-> states[j], owner |-> j]]
  /\ cluster \in BOOLEAN
  /\ now = PassTime
  /\ pc = "idle"
  /\ items = [x \in 1..NumExits |-> Absent]
  /\ qmap = EmptyQueueMap
  /\ sel = NoOp
  /\ busy = FALSE
  /\ passNow = 0
  /\ res = NoRes
  /\ stale = FALSE
  /\ trig = NoOp
  /\ result = [ret |-> "none", exit |-> "none", written |-> {}, failed |-> "none", failedAt |-> NoOp]

ExitsPass ==
  /\ pc = "idle"
  /\ \E r \in Ops, f \in FailPoints, fr \in Ops :
       /\ f # "statusUpdate" => fr = 1
       /\ PollStep(r, f, fr, Reconcile(r, f, fr))

SpecExits == InitExits /\ [][ExitsPass]_vars

\* ================================================================== claims
EngineBusy == busy \/ Len(qmap[ccOperationInProgress]) > 0
Classified == \E b \in DOMAIN qmap : Len(qmap[b]) > 0
OpOf(x) == items[x].task.op
PriorityOf(x) == executionPriorityMap(items[x].task.op)
NonStopKinds == {OperationAddBroker, OperationRemoveBroker, OperationRebalance}

\* C2 (single-flight): when the engine reports a job in execution or the
\* in-progress queue is not empty, the pass goes on to dispatch only a
\* stop-execution selection; with any other selection, and with none, it
\* returns requeue-after-fixed-interval without dispatching.
C2_SingleFlight ==
  /\ (pc = "execute" /\ EngineBusy) => OpOf(sel) = OperationStopExecution
  /\ (Classified /\ EngineBusy /\ (sel = NoOp \/ OpOf(sel) # OperationStopExecution))
       => (pc = "done" /\ result.ret = "requeueAfter")

C2_Witness ==
  /\ pc = "done" /\ result = [ret |-> "requeueAfter", exit |-> "busy"]
  /\ ~busy /\ Len(qmap[ccOperationInProgress]) > 0
  /\ sel # NoOp /\ OpOf(sel) \in NonStopKinds

Ordered(q) ==
  \A i, j \in 1..Len(q) :
    i < j => \/ PriorityOf(q[i]) > PriorityOf(q[j])
             \/ /\ PriorityOf(q[i]) = PriorityOf(q[j])
                /\ items[q[i]].created <= items[q[j]].created

HeadIsBest(q) ==
  \A j \in 1..Len(q) :
    /\ PriorityOf(q[1]) >= PriorityOf(q[j])
    /\ PriorityOf(q[1]) = PriorityOf(q[j]) => items[q[1]].created <= items[q[j]].created

C4_PriorityOrder ==
  \A b \in {ccOperationFirstExecution, ccOperationRetryExecution} :
    Ordered(qmap[b]) /\ HeadIsBest(qmap[b])

C4_Witness ==
  LET q == qmap[ccOperationFirstExecution]
  IN /\ Len(q) = 3
     /\ q[1] > q[2] /\ q[2] > q[3]
     /\ PriorityOf(q[1]) > PriorityOf(q[2])
     /\ PriorityOf(q[2]) = PriorityOf(q[3])
     /\ items[q[2]].created < items[q[3]].created
     /\ items[q[1]].created > items[q[2]].created

\* C5 (add-broker preemption): with an empty stop-execution queue and an
\* add_broker record in the first-execution queue the selector returns an
\* add_broker record of the first-execution queue, never another kind and never
\* a record of the retry queue.
C5_AddBrokerPreemption ==
  (/\ Len(qmap[ccOperationForStopExecution]) = 0
   /\ \E i \in 1..Len(qmap[ccOperationFirstExecution]) :
        OpOf(qmap[ccOperationFirstExecution][i]) = OperationAddBroker)
  => /\ sel \in SeqToSet(qmap[ccOperationFirstExecution])
     /\ sel \notin SeqToSet(qmap[ccOperationRetryExecution])
     /\ OpOf(sel) = OperationAddBroker

C5_Witness ==
  /\ pc = "execute"
  /\ Len(qmap[ccOperationForStopExecution]) = 0
  /\ OpOf(sel) = OperationAddBroker
  /\ Len(qmap[ccOperationRetryExecution]) > 0
  /\ IsReadyForRetryExecution(items[qmap[ccOperationRetryExecution][1]], passNow)
  /\ \E x \in SeqToSet(qmap[ccOperationFirstExecution]) :
       OpOf(x) = OperationRebalance /\ items[x].created < items[sel].created

\* C6 (retry backoff gating): a record of the retry queue is selected only when
\* its backoff window has elapsed; with an empty stop-execution queue and no
\* add_broker at the head of the first-execution queue, the selector returns
\* nothing while the head of the retry queue is inside its window, also when
\* the first-execution queue is not empty, and returns that head once the
\* window has elapsed.
RetryHeadDecides ==
  /\ Len(qmap[ccOperationForStopExecution]) = 0
  /\ ~addBrokerFirst(qmap, items)
  /\ Len(qmap[ccOperationRetryExecution]) > 0

C6_RetryBackoffGating ==
  /\ (sel # NoOp /\ sel \in SeqToSet(qmap[ccOperationRetryExecution]))
       => items[sel].task.finished + DefaultRetryBackOffDurationSec < passNow
  /\ RetryHeadDecides =>
       IF items[qmap[ccOperationRetryExecution][1]].task.finished + DefaultRetryBackOffDurationSec < passNow
         THEN sel = qmap[ccOperationRetryExecution][1]
         ELSE sel = NoOp /\ pc = "done" /\ result.ret = "requeueAfter"

C6_Witness ==
  /\ RetryHeadDecides
  /\ sel = NoOp
  /\ result = [ret |-> "requeueAfter", exit |-> "nothingSelected"]
  /\ Len(qmap[ccOperationFirstExecution]) > 0
  /\ items[qmap[ccOperationRetryExecution][1]].task.finished # NoTime
  /\ \E i \in 1..Len(qmap[ccOperationRetryExecution]) :
       IsReadyForRetryExecution(items[qmap[ccOperationRetryExecution][i]], passNow)

\* ------------------------------------------------- claims on the lifecycle
\* The pass step that took the deletion guard off the record it was triggered for.
GuardRemoved ==
  /\ pc = "idle" /\ pc' = "done"
  /\ rec[trig'].finalizer /\ ~rec'[trig'].finalizer

\* C1 as stated: on every exit path the guard is never removed from a record
\* whose CurrentTask is running at the moment of removal.
C1_Original == [][GuardRemoved => ~IsCurrentTaskRunning(items'[trig'])]_vars

\* C1 amended: the post-poll path never removes the guard from a record whose
\* CurrentTask is running at the moment of removal, so a record marked for
\* deletion with a running task keeps its guard in every pass that finds its
\* cluster and does not find the record done; the terminal fast path removes
\* the guard from a done record and the cluster-not-found path from any record
\* marked for deletion, neither looking at whether the task is running.
C1_GuardKeptWhileRunning ==
  [][GuardRemoved =>
       /\ result'.exit \in {"postPoll", "fastPath", "clusterNotFound"}
       /\ items'[trig'].deleting
       /\ result'.exit = "postPoll" => ~IsCurrentTaskRunning(items'[trig'])
       /\ result'.exit = "fastPath" => IsDone(items'[trig'])
       /\ result'.exit = "clusterNotFound" => ~cluster]_vars

C1_Witness ==
  /\ pc = "done" /\ result = [ret |-> "reconciled", exit |-> "postPoll"]
  /\ rec[trig] = Deleted
  /\ items[trig].deleting /\ items[trig].finalizer
  /\ items[trig].task.started # NoTime /\ items[trig].task.finished # NoTime

\* The Persist step that wrote the merged status of the selected record.
StatusWritten == pc = "persist" /\ ~stale /\ result'.exit = "executed"

\* C7 as stated: when the dispatch succeeded and its result has state
\* CompletedWithError, the post-execution merge appends one entry to
\* FailedTasks and increments RetryCount by one, on a first execution as well.
C7_Original ==
  [][(StatusWritten /\ res.err = "" /\ res.state = CruiseControlTaskCompletedWithError)
       => /\ Len(rec'[sel].failedTasks) = Len(rec[sel].failedTasks) + 1
          /\ rec'[sel].retryCount = rec[sel].retryCount + 1]_vars

\* C7 amended: the post-execution merge appends exactly one entry, the snapshot
\* of the previous attempt, increments RetryCount by one and records the new
\* attempt in a reset CurrentTask exactly when the CurrentTask it finds is in
\* state CompletedWithError and has Finished set, before this merge or by it
\* (the new result is terminal); that is on a dispatch that follows a failed
\* attempt, whatever the state of the new result. On a first execution it
\* appends nothing and leaves RetryCount alone, also when the result is
\* CompletedWithError.
C7_ArchiveOnRetry ==
  [][StatusWritten =>
       IF /\ rec[sel].task.state = CruiseControlTaskCompletedWithError
          /\ rec[sel].task.finished # NoTime \/ res.state \in TerminalStates
         THEN /\ Len(rec'[sel].failedTasks) = Len(rec[sel].failedTasks) + 1
              /\ LET last == rec'[sel].failedTasks[Len(rec'[sel].failedTasks)]
                 IN /\ last.id = rec[sel].task.id
                    /\ last.state = CruiseControlTaskCompletedWithError
              /\ rec'[sel].retryCount = rec[sel].retryCount + 1
              /\ rec'[sel].task.id = res.taskID
              /\ rec'[sel].task.state = res.state
         ELSE /\ rec'[sel].failedTasks = rec[sel].failedTasks
              /\ rec'[sel].retryCount = rec[sel].retryCount]_vars

C7_Witness ==
  /\ pc = "done" /\ result.exit = "executed"
  /\ res.err = "" /\ res.state = CruiseControlTaskCompletedWithError
  /\ rec[sel].retryCount = 1
  /\ Len(rec[sel].failedTasks) = 1
  /\ rec[sel].failedTasks[1].id # rec[sel].task.id
  /\ rec[sel].task.state = CruiseControlTaskCompletedWithError

\* C8 as stated: the conflict-retry sequence never ends with success reported
\* while the merged result is not in the store.
C8_Original ==
  [][(pc = "persist" /\ result'.ret = "reconciled")
       => /\ rec'[sel].task.id = res.taskID
          /\ rec'[sel].task.state = res.state]_vars

\* The jobs the record shows in a terminal state, in CurrentTask or in FailedTasks.
ObservedTerminal(o) ==
  {o.failedTasks[i].id : i \in 1..Len(o.failedTasks)}
    \cup (IF o.task.state \in TerminalStates THEN {o.task.id} ELSE {})

\* C9 as stated: once a pass has dispatched an add_broker, remove_broker or
\* rebalance job for a record, no later pass dispatches such a job for it
\* before the dispatched job was observed in a terminal state.
C9_Original ==
  [][\A j \in JobIds :
       (jobs[j].state = "none" /\ jobs'[j].owner # NoOp)
         => \A k \in JobIds :
              jobs[k].owner = jobs'[j].owner => k \in ObservedTerminal(rec[jobs'[j].owner])]_vars

\* The merge archived the CurrentTask of record r.
Archived(r) ==
  /\ Len(rec'[r].failedTasks) = Len(rec[r].failedTasks) + 1
  /\ rec'[r].failedTasks[Len(rec'[r].failedTasks)].id = rec[r].task.id

JobIdChanged(r) ==
  /\ rec[r].exists /\ rec'[r].exists
  /\ rec[r].task.id # NoId
  /\ rec'[r].task.id # rec[r].task.id

\* C10 as stated: no merge changes a non-empty job id of CurrentTask unless the
\* task was archived to FailedTasks in the same merge.
C10_Original == [][\A r \in Ops : JobIdChanged(r) => Archived(r)]_vars

\* C10 amended: no merge changes a non-empty job id of CurrentTask unless the
\* task was archived to FailedTasks in the same merge, or the merge is the
\* post-execution merge of a stop-execution dispatch, which puts the id of the
\* stop request in place of the id of the job it stops without archiving.
C10_JobIdImmutable ==
  [][\A r \in Ops :
       JobIdChanged(r) =>
         \/ Archived(r)
         \/ /\ pc = "persist" /\ r = sel
            /\ rec'[r].task.op = OperationStopExecution]_vars

C10_Witness ==
  /\ pc = "done" /\ result.exit = "executed"
  /\ Len(rec[sel].failedTasks) = 1
  /\ rec[sel].failedTasks[1].id # NoId
  /\ rec[sel].task.id # NoId
  /\ rec[sel].task.id # rec[sel].failedTasks[1].id
  /\ rec[sel].task.state = CruiseControlTaskActive

\* ------------------------------------------------------ claims on the merge
\* C11 (bounded history): FailedTasks never has more than 50 entries; archiving
\* into a full history evicts the oldest entry and appends the new one at the
\* back, so after N archived failures the history holds the min(N, 50) most
\* recent failures in archive order.
C11_BoundedHistory ==
  \A r \in Ops :
    LET h == rec[r].failedTasks
        n == rec[r].retryCount
    IN /\ Len(h) <= defaultFailedTasksHistoryMaxLength
       /\ Len(h) = IF n < defaultFailedTasksHistoryMaxLength
                     THEN n ELSE defaultFailedTasksHistoryMaxLength
       /\ \A i \in 1..Len(h) : h[i].id = n - Len(h) + i

C11_Witness ==
  /\ rec[1].retryCount = defaultFailedTasksHistoryMaxLength + 2
  /\ Len(rec[1].failedTasks) = defaultFailedTasksHistoryMaxLength
  /\ rec[1].failedTasks[1].id = 3
  /\ rec[1].failedTasks[defaultFailedTasksHistoryMaxLength].id
       = defaultFailedTasksHistoryMaxLength + 2

\* The ReconcileStart step of a pass whose poll of the engine did not fail.
PollRan ==
  /\ pc = "idle"
  /\ pc' = "execute" \/ result'.exit \in {"postPoll", "noOperation", "nothingSelected", "busy"}

\* Record x is in the scope of the poll of the pass triggered for trig', it is
\* not done, it has a job id and the engine has no result for that id.
PolledMissing(x) ==
  /\ rec[x].exists /\ rec[trig'].exists
  /\ kafkaClusterReference(rec[x]) = kafkaClusterReference(rec[trig'])
  /\ IsCurrentTaskOperationValid(rec[x]) /\ ~IsDone(rec[x])
  /\ rec[x].task.id # NoId
  /\ UserTask(rec[x].task.id).nil

\* C12 as stated: polling a job id for which the engine returns no result sets
\* the record's task State to CompletedWithError with the sentinel
\* missing-result error; the poll never leaves the record non-terminal.
C12_Original ==
  [][\A x \in Ops :
       (PollRan /\ PolledMissing(x))
         => /\ items'[x].task.state = CruiseControlTaskCompletedWithError
            /\ items'[x].task.err = missingCCResErr]_vars

\* The part of C12 that the merge keeps: State CompletedWithError and Finished
\* set, in memory and, unless the pass removed the record, in the store.
C12_MissingIsTerminal ==
  [][\A x \in Ops :
       (PollRan /\ PolledMissing(x))
         => /\ items'[x].task.state = CruiseControlTaskCompletedWithError
            /\ items'[x].task.finished # NoTime
            /\ items'[x].task.err = rec[x].task.err
            /\ rec'[x].exists => Status(rec'[x]) = Status(items'[x])]_vars

C12_Witness ==
  /\ pc = "done" /\ result.exit \in {"noOperation", "nothingSelected"}
  /\ rec[trig].task.state = CruiseControlTaskCompletedWithError
  /\ rec[trig].task.id # NoId /\ jobs[rec[trig].task.id].state = "evicted"
  /\ rec[trig].task.finished # NoTime
  /\ rec[trig].task.err = ""

\* ------------------------------------------------------ claims on done records
\* A step of a pass (the steps of the environment leave pc alone).
PassStep == pc' # pc

StartsOnCompleted(r) ==
  /\ pc = "idle" /\ PassStep /\ trig' = r
  /\ rec[r].deleting /\ rec[r].finalizer
  /\ rec[r].task.state = CruiseControlTaskCompleted

\* Once the task is Completed the next pass for the record, when its store
\* calls succeed, removes the guard and returns done without dispatching.
CompletedIsReleased ==
  \A r \in Ops :
    StartsOnCompleted(r) =>
      /\ pc' = "done"
      /\ jobs' = jobs
      /\ result'.exit \in {"list", "fastPath"}
      /\ result'.ret # "requeueWithError"
           => (result'.ret = "reconciled" /\ result'.exit = "fastPath" /\ rec'[r] = Deleted)
      /\ result'.ret = "requeueWithError" => rec' = rec

\* C14 as stated: a record marked for deletion keeps its guard in every pass
\* while its task is in progress; once the task is Completed the next pass for
\* the record removes the guard and returns done without dispatching.
C14_Original ==
  [][/\ GuardRemoved => ~IsInProgress(items'[trig'])
     /\ CompletedIsReleased]_vars

\* C14 amended: a record marked for deletion keeps its guard while its task is
\* in progress in every pass that finds the referenced Kafka cluster (a pass
\* that does not find the cluster removes the guard whatever the task does);
\* once the task is Completed the next pass for the record removes the guard
\* and returns done without dispatching.
C14_ScenarioC ==
  [][/\ (GuardRemoved /\ result'.exit # "clusterNotFound") => ~IsInProgress(items'[trig'])
     /\ CompletedIsReleased]_vars

C14_Witness ==
  /\ pc = "done" /\ result = [ret |-> "reconciled", exit |-> "fastPath"]
  /\ rec[trig] = Deleted
  /\ items[trig].deleting /\ items[trig].finalizer
  /\ items[trig].task.state = CruiseControlTaskCompleted
  /\ items[trig].task.op \in NonStopKinds

\* ------------------------------------------------------- claims on the guard
GuardCount(o) ==
  Cardinality({i \in 1..Len(o.finalizers) : o.finalizers[i] = ccOperationFinalizerGroup})

HasGuard(o) == ContainsFinalizer(o.finalizers, ccOperationFinalizerGroup)

\* C15 (idempotent guard): addFinalizer attaches the guard only to a record
\* that is not marked for deletion and does not carry it, so the list never
\* holds the guard twice and a second attach writes nothing; the guard is
\* never attached to a record marked for deletion; removing the guard from a
\* record that does not carry it leaves the record as it was.
C15_IdempotentGuard ==
  [][/\ GuardCount(rec'[1]) <= 1
     /\ GuardCount(rec'[1]) > GuardCount(rec[1])
          => (result'.exit = "addFinalizer" /\ ~rec[1].deleting /\ result'.wrote)
     /\ (result'.exit = "addFinalizer" /\ (HasGuard(rec[1]) \/ rec[1].deleting))
          => (rec' = rec /\ ~result'.wrote)
     /\ (result'.exit = "addFinalizer" /\ ~HasGuard(rec[1]) /\ ~rec[1].deleting)
          => (GuardCount(rec'[1]) = 1 /\ result'.wrote)
     /\ (result'.exit \in {"removeFinalizer", "clusterNotFound"} /\ ~HasGuard(rec[1]))
          => rec' = rec]_vars

C15_Witness ==
  /\ result = GuardCall("addFinalizer", FALSE)
  /\ ~rec[1].deleting
  /\ GuardCount(rec[1]) = 1
  /\ Len(rec[1].finalizers) = 3
  /\ rec[1].finalizers[2] = ccOperationFinalizerGroup

\* ------------------------------------------------ claims on the fast path
\* The pass triggered for record r starts on the stored record r.
StartsOn(r) == pc = "idle" /\ PassStep /\ trig' = r /\ rec[r].exists

\* The guard went for one of the two reasons the specification names.
RemovedForNamedReason ==
  \/ IsDone(items'[trig']) /\ items'[trig'].finalizer
  \/ items'[trig'].deleting /\ ~IsCurrentTaskRunning(items'[trig'])

\* C16 as stated: a pass triggered for a done record that carries the guard
\* removes the guard and returns done on the fast path, whether or not the
\* record is marked for deletion; the guard is removed only from a done record
\* carrying it or from a record marked for deletion whose task is not running.
C16_Original ==
  [][/\ \A r \in Ops :
          (StartsOn(r) /\ IsDone(rec[r]) /\ rec[r].finalizer) =>
            /\ result'.exit \in {"list", "fastPath"}
            /\ result'.ret # "requeueWithError" => ~rec'[r].finalizer
     /\ GuardRemoved => RemovedForNamedReason]_vars

\* C16 amended: a pass triggered for a done record that carries the guard and
\* is marked for deletion removes the guard and returns done on the fast path,
\* before any validity, cluster or engine step, touching no other record and
\* no job (requeue-with-error and no change when the list or the update
\* fails); a done record that is not marked for deletion keeps its guard and
\* never takes the fast path; the guard is removed only from records marked
\* for deletion: on the fast path when done, after the poll when the task is
\* not running, and whenever the referenced cluster is not found.
C16_TerminalFastPath ==
  [][/\ \A r \in Ops :
          (StartsOn(r) /\ IsDone(rec[r]) /\ rec[r].finalizer) =>
            /\ rec[r].deleting =>
                 /\ pc' = "done" /\ jobs' = jobs
                 /\ result'.exit \in {"list", "fastPath"}
                 /\ result'.ret # "requeueWithError" =>
                      /\ result' = [ret |-> "reconciled", exit |-> "fastPath"]
                      /\ rec' = [rec EXCEPT ![r] = Deleted]
                 /\ result'.ret = "requeueWithError" => rec' = rec
            /\ ~rec[r].deleting =>
                 /\ result'.exit # "fastPath"
                 /\ rec'[r].exists /\ rec'[r].finalizer
     /\ GuardRemoved =>
          /\ items'[trig'].deleting
          /\ \/ result'.exit = "fastPath" /\ IsDone(items'[trig'])
             \/ result'.exit = "postPoll" /\ ~IsCurrentTaskRunning(items'[trig'])
             \/ result'.exit = "clusterNotFound" /\ ~cluster]_vars

C16_Witness ==
  /\ pc = "done" /\ result = [ret |-> "reconciled", exit |-> "fastPath"]
  /\ rec[trig] = Deleted
  /\ items[trig].deleting /\ items[trig].finalizer
  /\ items[trig].task.state = CruiseControlTaskCompletedWithError
  /\ IsDone(items[trig])

\* --------------------------------------------------- claims on Finished
\* A step wrote a merged status of record o to the store.
MergeWritten(o) ==
  /\ rec[o].exists /\ rec'[o].exists
  /\ Status(rec'[o]) # Status(rec[o])

\* The stored Finished of record o was set and the step changed it.
FinishedOverwritten(o) ==
  /\ rec[o].exists /\ rec'[o].exists
  /\ rec[o].task.finished # NoTime
  /\ rec'[o].task.finished # rec[o].task.finished

\* C17 as stated: after any merge, polling or post-execution, first execution
\* or retry, that leaves CurrentTask.State at Completed or CompletedWithError,
\* CurrentTask.Finished is set; a Finished that is set is not overwritten by a
\* later merge of the same attempt.
C17_Original ==
  [][\A o \in Ops :
       /\ (MergeWritten(o) /\ rec'[o].task.state \in TerminalStates)
            => rec'[o].task.finished # NoTime
       /\ FinishedOverwritten(o) => Archived(o)]_vars

\* What holds of Finished: a polling merge that leaves State terminal leaves
\* Finished set, and so does a post-execution merge that does not archive; a
\* Finished that is set changes only in a merge that archives the attempt.
C17_FinishedUnlessArchived ==
  [][\A o \in Ops :
       /\ (MergeWritten(o) /\ rec'[o].task.state \in TerminalStates /\ ~Archived(o))
            => rec'[o].task.finished # NoTime
       /\ (MergeWritten(o) /\ pc = "idle" /\ rec'[o].task.state \in TerminalStates)
            => (rec'[o].task.finished # NoTime /\ ~Archived(o))
       /\ FinishedOverwritten(o) => (Archived(o) /\ StatusWritten /\ o = sel)]_vars

C17_Witness ==
  /\ pc = "done" /\ result = [ret |-> "reconciled", exit |-> "executed"]
  /\ rec[sel].exists
  /\ rec[sel].task.state = CruiseControlTaskCompleted
  /\ rec[sel].task.finished = NoTime
  /\ rec[sel].retryCount = 1
  /\ rec[sel].failedTasks[1].finished # NoTime

\* ------------------------------------------------- claims on the retry count
\* The step appended a snapshot of the CurrentTask of record o to its history.
SnapshotAppended(o) ==
  /\ Len(rec'[o].failedTasks) = Len(rec[o].failedTasks) + 1
  /\ SubSeq(rec'[o].failedTasks, 1, Len(rec[o].failedTasks)) = rec[o].failedTasks
  /\ rec'[o].failedTasks[Len(rec'[o].failedTasks)].id = rec[o].task.id
  /\ rec'[o].failedTasks[Len(rec'[o].failedTasks)].state = rec[o].task.state

\* C18 (retry count): RetryCount never decreases and grows by exactly one
\* exactly when a snapshot of CurrentTask is appended to FailedTasks; both
\* happen only in the post-execution merge of the selected record, and a
\* polling merge changes neither, in the store or in memory, whatever the
\* polled state is.
C18_RetryCount ==
  [][\A o \in Ops :
       (rec[o].exists /\ rec'[o].exists) =>
         /\ rec'[o].retryCount \in {rec[o].retryCount, rec[o].retryCount + 1}
         /\ rec'[o].retryCount = rec[o].retryCount + 1 <=> SnapshotAppended(o)
         /\ rec'[o].retryCount = rec[o].retryCount <=> rec'[o].failedTasks = rec[o].failedTasks
         /\ rec'[o].retryCount # rec[o].retryCount => (StatusWritten /\ o = sel)
         /\ pc = "idle" =>
              /\ rec'[o].retryCount = rec[o].retryCount
              /\ rec'[o].failedTasks = rec[o].failedTasks
              /\ items'[o].exists =>
                   /\ items'[o].retryCount = rec[o].retryCount
                   /\ items'[o].failedTasks = rec[o].failedTasks]_vars

C18_Witness ==
  /\ pc = "done" /\ result.exit = "executed"
  /\ rec[sel].exists
  /\ rec[sel].retryCount = 2
  /\ Len(rec[sel].failedTasks) = 2
  /\ rec[sel].failedTasks[2].id = res.taskID - 1
  /\ rec[sel].task.id = res.taskID

\* ------------------------------------------------------ claims on the poll
\* Record x is in the scope of the poll of the pass triggered for trig'.
InPollScope(x) ==
  /\ kafkaClusterReference(rec[x]) = kafkaClusterReference(rec[trig'])
  /\ IsCurrentTaskOperationValid(rec[x]) /\ ~IsDone(rec[x])

PollReached ==
  pc' = "execute"
    \/ result'.exit \in {"pollFailed", "postPoll", "noOperation", "nothingSelected", "busy"}

\* C19 (polling writes only on change): in a pass whose poll and writes
\* succeed, a status write is issued for a record exactly when the merge left
\* its status different from the one it had at the start of the poll, and the
\* store then holds the merged status; a record with no job id, a done record
\* and a record of another cluster is neither merged nor written; when the
\* bulk poll fails nothing is merged or written, when a write fails the writes
\* issued are among the changed records, and in both cases the pass returns
\* requeue-after without classification or dispatch.
C19_PollWritesOnChange ==
  [][PollReached =>
       /\ \A x \in Ops :
            /\ x \in result'.written => Status(items'[x]) # Status(rec[x])
            /\ result'.exit # "pollFailed" =>
                 (x \in result'.written <=> Status(items'[x]) # Status(rec[x]))
            /\ rec'[x].exists =>
                 Status(rec'[x]) = IF x \in result'.written THEN Status(items'[x])
                                                            ELSE Status(rec[x])
            /\ (rec[x].task.id = NoId \/ ~InPollScope(x)) =>
                 (x \notin result'.written /\ Status(items'[x]) = Status(rec[x]))
       /\ result'.failed = "userTasks" =>
            (result'.exit = "pollFailed" /\ result'.written = {}
               /\ \A x \in Ops : Status(items'[x]) = Status(rec[x]))
       /\ (result'.failed = "statusUpdate"
             /\ Status(items'[result'.failedAt]) # Status(rec[result'.failedAt]))
            => (result'.exit = "pollFailed" /\ result'.failedAt \notin result'.written)
       /\ result'.exit = "pollFailed" =>
            /\ result'.failed \in {"userTasks", "statusUpdate"}
            /\ result'.ret = "requeueAfter" /\ pc' = "done"
            /\ qmap' = EmptyQueueMap /\ sel' = NoOp /\ jobs' = jobs]_vars

C19_Witness ==
  /\ result.exit \in {"noOperation", "nothingSelected", "busy"}
  /\ result.failed = "none"
  /\ Cardinality(result.written) = 1
  /\ \E x \in Ops \ result.written :
       /\ kafkaClusterReference(rec[x]) = kafkaClusterReference(rec[trig])
       /\ rec[x].task.id # NoId
       /\ rec[x].task.state = CruiseControlTaskActive
  /\ \E x \in result.written : rec[x].task.state = CruiseControlTaskCompleted

\* -------------------------------------------------- claims on the dispatch
\* C20 (dispatch error with no result): when the dispatch verb returns an
\* error and no result, the pass ends there with requeue-with-error, without
\* the merge and the status write that follow a dispatch with a result; the
\* store is what it was before the dispatch attempt.
C20_DispatchErrorNoResult ==
  [][(pc = "execute" /\ PassStep) =>
       /\ rec' = rec
       /\ res'.nil =>
            /\ pc' = "done"
            /\ result' = [ret |-> "requeueWithError", exit |-> "dispatchError"]
       /\ ~res'.nil => (pc' = "persist" /\ result' = result)]_vars

C20_Witness ==
  /\ pc = "done" /\ result = [ret |-> "requeueWithError", exit |-> "dispatchError"]
  /\ res.nil
  /\ items[sel].task.op = OperationStopExecution
  /\ rec[sel].exists /\ rec[sel].task.op \in NonStopKinds
  /\ rec[sel].task.id # NoId /\ jobs[rec[sel].task.id].state = CruiseControlTaskActive

\* ------------------------------------- claims on a dispatch error with a result
\* The Persist step of a pass whose dispatch verb returned an error together
\* with a result, the selected record not written by anyone since it was listed.
PersistsErrorResult ==
  /\ pc = "persist" /\ PassStep
  /\ ~stale /\ rec[sel].exists
  /\ ~res.nil /\ res.err # ""

\* The stored record shows the attempt: job id, state and error message.
ShowsAttempt(o) ==
  /\ o.task.id = res.taskID
  /\ o.task.state = res.state
  /\ o.task.err = res.err

\* C21 as stated: when the dispatch verb returns an error together with a
\* result, the merge of the result never fails, and a pass that ends without
\* error has stored the attempt (job id, state, error message).
C21_Original ==
  [][PersistsErrorResult =>
       /\ ~updateResult(res, items[sel], TRUE, now).err
       /\ result'.exit = "executed" => ShowsAttempt(rec'[sel])]_vars

\* What holds: the merge fails exactly when Started is unset after the archive
\* branch and the start time of the result does not parse; the pass then
\* returns requeue-with-error with the store untouched; a pass that ends
\* without error has stored the attempt.
C21_MergedUnlessParseFails ==
  [][PersistsErrorResult =>
       /\ updateResult(res, items[sel], TRUE, now).err
            <=> (res.startedAt = NoTime
                   /\ (items[sel].task.started = NoTime
                        \/ shouldArchive(TRUE, markFinished(res, items[sel], now).task)))
       /\ updateResult(res, items[sel], TRUE, now).err =>
            (result' = [ret |-> "requeueWithError", exit |-> "persistFailed"] /\ rec' = rec)
       /\ result'.exit = "executed" => ShowsAttempt(rec'[sel])
       /\ result'.exit = "persistFailed" => rec' = rec]_vars

C21_Witness ==
  /\ pc = "done" /\ result = [ret |-> "requeueWithError", exit |-> "persistFailed"]
  /\ ~res.nil /\ res.err # "" /\ res.startedAt = NoTime
  /\ rec[sel].exists /\ ~stale
  /\ rec[sel].task.started = NoTime /\ rec[sel].task.state = "" /\ rec[sel].task.id = NoId
  /\ rec[sel].retryCount = 0

\* ------------------------------------------------ claims on concurrent passes
\* Worker w has decided to dispatch a non-stop job.
DecidedNonStop(w) ==
  /\ pc[w] = "execute"
  /\ items[w][sel[w]].task.op # OperationStopExecution

\* C22 (concurrent-pass race): the core holds no lock or lease: a pass that
\* read the engine as idle and its InProgress bucket as empty and decided to
\* dispatch a non-stop job can dispatch it whatever another pass has done in
\* the meantime, also when that pass has itself dispatched and not yet
\* recorded its job.
C22_NoDispatchLock ==
  \A w \in Workers :
    DecidedNonStop(w) =>
      /\ ~busy[w]
      /\ Len(qmap[w][ccOperationInProgress]) = 0
      /\ FreeJobs # {} => ENABLED RaceExecute(w, "okActive")

\* Both passes read the engine as idle, saw an empty InProgress bucket and
\* invoked a non-stop dispatch verb: the engine holds both jobs.
C22_Witness ==
  /\ \A w \in Workers :
       /\ pc[w] = "persist"
       /\ ~busy[w] /\ Len(qmap[w][ccOperationInProgress]) = 0
       /\ items[w][sel[w]].task.op \in NonStopKinds
       /\ ~res[w].nil /\ jobs[res[w].taskID].state = CruiseControlTaskActive
  /\ trig[1] # trig[2]
  /\ res[1].taskID # res[2].taskID

\* ------------------------------------------------ claims on the early exits
\* No stored status changed and the poll issued no status write.
NoStatusWrite ==
  /\ result'.written = {}
  /\ \A x \in Ops : Status(rec'[x]) = Status(rec[x])

\* C23 (early exits before dispatch): a pass goes on to a dispatch verb only
\* if the triggering record was found, its kind is supported, its cluster
\* reference is there and the cluster was found, the engine answered and
\* reported ready, and the poll with its status writes succeeded; a pass on a
\* record of an unsupported kind whose list succeeds returns done with no
\* requeue, the store and the engine untouched; a pass that finds the engine
\* not ready returns requeue-after with no status write and no dispatch.
C23_EarlyExits ==
  [][(pc = "idle" /\ PassStep) =>
       /\ pc' = "execute" =>
            /\ rec[trig'].exists
            /\ IsCurrentTaskOperationValid(rec[trig'])
            /\ kafkaClusterReference(rec[trig']) # "" /\ cluster
            /\ result'.failed \notin {"list", "getCluster", "scaleFactory", "status",
                                      "notReady", "userTasks"}
            /\ result'.failed = "statusUpdate" =>
                 Status(items'[result'.failedAt]) = Status(rec[result'.failedAt])
            /\ sel' # NoOp /\ IsCurrentTaskOperationValid(items'[sel'])
       /\ (rec[trig'].exists /\ ~IsCurrentTaskOperationValid(rec[trig'])
             /\ result'.failed # "list") =>
            /\ pc' = "done"
            /\ result'.ret = "reconciled" /\ result'.exit = "invalidOperation"
            /\ rec' = rec /\ jobs' = jobs /\ result'.written = {}
       /\ result'.exit = "notReady" =>
            /\ result'.failed = "notReady"
            /\ pc' = "done" /\ result'.ret = "requeueAfter"
            /\ NoStatusWrite /\ jobs' = jobs
       /\ result'.failed = "notReady" => (pc' = "done" /\ NoStatusWrite)]_vars

C23_Witness ==
  /\ pc = "done" /\ result.exit = "notReady" /\ result.ret = "requeueAfter"
  /\ result.failed = "notReady" /\ result.written = {}
  /\ rec[trig].exists /\ rec[trig].finalizer
  /\ rec[trig].task.id = NoId /\ rec[trig].task.state = ""
  /\ \E x \in Ops \ {trig} :
       /\ rec[x].exists /\ rec[x].task.state = CruiseControlTaskActive
       /\ jobs[rec[x].task.id].state = CruiseControlTaskCompleted

\* --------------------------------------------------- claims on progress
\* The stored record o carries a job id and no terminal State.
Dispatched(o) ==
  /\ rec[o].exists
  /\ rec[o].task.id # NoId
  /\ rec[o].task.state \notin TerminalStates

\* The stored record o is settled: its State is terminal and the record is
\* done (or of no policy yet) or classified for retry, or the record is gone.
Settled(o) ==
  \/ ~rec[o].exists
  \/ /\ rec[o].task.state \in TerminalStates
     /\ IsDone(rec[o]) \/ IsWaitingForRetryExecution(rec[o])

\* A pass ended without a dispatch while record x was in progress in its list.
EndsWhileInProgress(x) ==
  /\ pc = "idle" /\ pc' = "done"
  /\ items'[x].exists /\ IsInProgress(items'[x])

====
